---- MODULE Spec2Model ----
(***************************************************************************)
(* Model of handyFunctions.py: find_nearest_lonlat, central_date,          *)
(* uv2intdir, intdir2uv and dirstats.                                      *)
(*                                                                         *)
(* Numbers.  The functions compute in binary floating point.  A float is   *)
(* modelled as an integer count of 2^-FracBits parts of one, kept to       *)
(* MantBits significant bits: every arithmetic result goes through Fl,     *)
(* which rounds to nearest, ties to even, as IEEE-754 does with 53 bits.   *)
(* Angles are in degrees throughout; a datetime is an integer count of     *)
(* microseconds.                                                           *)
(***************************************************************************)
EXTENDS Integers, Sequences, FiniteSets, TLC

\* ---- bounds of the model ------------------------------------------------
FracBits == 11      \* the grid: one unit is 2^-FracBits
MantBits == 14      \* significant bits a float keeps
MaxVel   == 2       \* velocity components range over -MaxVel..MaxVel
MaxLen   == 3       \* longest array / series
MaxTime  == 12      \* instants range over 0..MaxTime microseconds

Unit == 2^FracBits
Deg(n) == n * Unit

\* ---- float64 arithmetic ---------------------------------------------------
Abs(x) == IF x < 0 THEN -x ELSE x
Sgn(x) == IF x < 0 THEN -1 ELSE 1

RECURSIVE BitLen(_)
BitLen(n) == IF n = 0 THEN 0 ELSE 1 + BitLen(n \div 2)

\* n / q rounded to the nearest integer, ties to even (n >= 0, q > 0)
RoundHalfEven(n, q) ==
    LET f == n \div q
        r == n % q
    IN  IF 2 * r > q \/ (2 * r = q /\ f % 2 = 1) THEN f + 1 ELSE f

\* signed version
RoundDiv(n, q) == Sgn(n) * RoundHalfEven(Abs(n), q)

\* distance between neighbouring floats at x
Ulp(x) == IF Abs(x) < 2^MantBits THEN 1 ELSE 2^(BitLen(Abs(x)) - MantBits)

\* the float nearest to the exact value x
Fl(x) == LET q == Ulp(x) IN IF q = 1 THEN x ELSE RoundDiv(x, q) * q

FAdd(a, b) == Fl(a + b)
FSub(a, b) == Fl(a - b)
FMul(a, b) == Fl(RoundDiv(a * b, Unit))

\* C fmod: the remainder has the sign of a and is exact
Fmod(a, b) == Sgn(a) * (Abs(a) % Abs(b))

\* numpy's floating remainder (npy_divmod): fmod, then one rounded addition
\* of the divisor when the signs differ
NpMod(a, b) ==
    LET m == Fmod(a, b)
    IN  IF m # 0 /\ ((b < 0) # (m < 0)) THEN FAdd(m, b) ELSE m

\* floor of the square root
RECURSIVE ISqrtFrom(_, _, _)
ISqrtFrom(n, r, bit) ==
    IF bit = 0 THEN r
    ELSE IF (r + bit) * (r + bit) <= n THEN ISqrtFrom(n, r + bit, bit \div 2)
         ELSE ISqrtFrom(n, r, bit \div 2)

ISqrt(n) == ISqrtFrom(n, 0, 2^15)

\* np.sqrt of a value in units, correctly rounded
NpSqrt(x) ==
    LET n == x * Unit
        r == ISqrt(n)
    IN  Fl(IF n - r * r > r THEN r + 1 ELSE r)

\* ---- trigonometry (degrees) ---------------------------------------------
\* atan(2^-i) for i = 0, 1, ..., in degrees times AngUnit
AtanTab == << 47185920, 27855475, 14718068, 7471121, 3750058, 1876857,
              938658, 469357, 234682, 117342, 58671, 29335, 14668, 7334,
              3667, 1833, 917, 458, 229, 115, 57, 29 >>
AngUnit == 2^20
VecUnit == 2^24

\* angle of the vector (x, y), 0 <= y <= x, by successive rotations onto the
\* x axis; result in degrees times AngUnit
RECURSIVE CordicVec(_, _, _, _)
CordicVec(x, y, z, i) ==
    IF i > Len(AtanTab) \/ y = 0 THEN z
    ELSE LET p == 2^(i - 1)
         IN  IF y > 0
             THEN CordicVec(x + (y \div p), y - (x \div p), z + AtanTab[i], i + 1)
             ELSE CordicVec(x - (y \div p), y + (x \div p), z - AtanTab[i], i + 1)

\* the unit vector rotated by z (degrees times AngUnit, 0 <= z <= 90),
\* as <<cos, sin>> times VecUnit
RECURSIVE CordicRot(_, _, _, _)
CordicRot(x, y, z, i) ==
    IF i > Len(AtanTab) THEN <<x, y>>
    ELSE LET p == 2^(i - 1)
         IN  IF z >= 0
             THEN CordicRot(x - (y \div p), y + (x \div p), z - AtanTab[i], i + 1)
             ELSE CordicRot(x + (y \div p), y - (x \div p), z + AtanTab[i], i + 1)

\* np.rad2deg(np.arctan2(v, u)): the angle of (u, v) in (-180, 180], as a float
Arctan2Deg(v, u) ==
    IF u = 0 /\ v = 0 THEN 0
    ELSE LET ax == Abs(u)
             ay == Abs(v)
             hi == IF ax >= ay THEN ax ELSE ay
             lo == IF ax >= ay THEN ay ELSE ax
             sc == 2^(26 - BitLen(hi))
             a  == RoundHalfEven(CordicVec(hi * sc, lo * sc, 0, 1), AngUnit \div Unit)
             q1 == IF ax >= ay THEN a ELSE Deg(90) - a
             q  == IF u >= 0 THEN q1 ELSE Deg(180) - q1
         IN  Fl(IF v < 0 THEN -q ELSE q)

\* <<np.cos(np.deg2rad(x)), np.sin(np.deg2rad(x))>> as floats
CosSinDeg(x) ==
    LET xm == x % Deg(360)
        k  == xm \div Deg(90)
        r  == xm % Deg(90)
        cs == CordicRot(10188014, 0, r * (AngUnit \div Unit), 1)
        c  == Fl(RoundDiv(cs[1], VecUnit \div Unit))
        s  == Fl(RoundDiv(cs[2], VecUnit \div Unit))
    IN  CASE k = 0 -> << c,  s>>
          [] k = 1 -> <<-s,  c>>
          [] k = 2 -> <<-c, -s>>
          [] OTHER -> << s, -c>>

NpCos(x) == CosSinDeg(x)[1]
NpSin(x) == CosSinDeg(x)[2]

\* ---- strings --------------------------------------------------------------
\* a string is a sequence of characters
UpperCase == << "A", "B", "C", "D", "E", "F", "G", "H", "I", "J", "K", "L", "M",
                "N", "O", "P", "Q", "R", "S", "T", "U", "V", "W", "X", "Y", "Z" >>
LowerCase == << "a", "b", "c", "d", "e", "f", "g", "h", "i", "j", "k", "l", "m",
                "n", "o", "p", "q", "r", "s", "t", "u", "v", "w", "x", "y", "z" >>

LowerChar(c) ==
    IF \E i \in 1..Len(UpperCase) : UpperCase[i] = c
    THEN LowerCase[CHOOSE i \in 1..Len(UpperCase) : UpperCase[i] = c]
    ELSE c

\* str.lower()
Lower(str) == [i \in 1..Len(str) |-> LowerChar(str[i])]

Current == << "c", "u", "r", "r", "e", "n", "t" >>
Wind    == << "w", "i", "n", "d" >>
Wave    == << "w", "a", "v", "e" >>

\* ---- uv2intdir / intdir2uv ------------------------------------------------
\* variant: the comparison keeps the case
IsCurrent_casesensitive(data_type) == data_type = Current

\* data_type.lower() == "current"
IsCurrent(data_type) == Lower(data_type) = Current

\* variant: the wind/wave branch uses the offset of the current branch
uv2intdir_sameoffset(uu, vv, data_type, decl) ==
    LET s   == NpSqrt(FAdd(FMul(uu, uu), FMul(vv, vv)))
        ang == FSub(Arctan2Deg(vv, uu), decl)
        d   == NpMod(FSub(Deg(90), ang), Deg(360))
    IN  [spd |-> s, direc |-> d]

\* variant: arctan2 takes its arguments in the other order
uv2intdir_swapped(uu, vv, data_type, decl) ==
    LET s   == NpSqrt(FAdd(FMul(uu, uu), FMul(vv, vv)))
        ang == FSub(Arctan2Deg(uu, vv), decl)
        d   == IF IsCurrent(data_type)
               THEN NpMod(FSub(Deg(90), ang), Deg(360))
               ELSE NpMod(FSub(Deg(270), ang), Deg(360))
    IN  [spd |-> s, direc |-> d]

\* variant: the declination is added to the angle instead of subtracted
uv2intdir_addsdecl(uu, vv, data_type, decl) ==
    LET s   == NpSqrt(FAdd(FMul(uu, uu), FMul(vv, vv)))
        ang == FAdd(Arctan2Deg(vv, uu), decl)
        d   == IF IsCurrent(data_type)
               THEN NpMod(FSub(Deg(90), ang), Deg(360))
               ELSE NpMod(FSub(Deg(270), ang), Deg(360))
    IN  [spd |-> s, direc |-> d]

\* uv2intdir(u, v, data_type, mag_decl) -> (spd, direc)
uv2intdir(uu, vv, data_type, decl) ==
    LET s   == NpSqrt(FAdd(FMul(uu, uu), FMul(vv, vv)))
        ang == FSub(Arctan2Deg(vv, uu), decl)
        d   == IF IsCurrent(data_type)
               THEN NpMod(FSub(Deg(90), ang), Deg(360))
               ELSE NpMod(FSub(Deg(270), ang), Deg(360))
    IN  [spd |-> s, direc |-> d]

\* variant: the wind/wave branch does not negate the components
intdir2uv_nonegate(s, d, data_type) ==
    [u |-> FMul(s, NpSin(d)), v |-> FMul(s, NpCos(d))]

\* intdir2uv(spd, direc, data_type) -> (u, v)
intdir2uv(s, d, data_type) ==
    IF IsCurrent(data_type)
    THEN [u |-> FMul(s, NpSin(d)), v |-> FMul(s, NpCos(d))]
    ELSE [u |-> FMul(FMul(s, NpSin(d)), -Unit),
          v |-> FMul(FMul(s, NpCos(d)), -Unit)]

\* ---- find_nearest_lonlat --------------------------------------------------
\* Python's min(arr, key=lambda x: abs(x - target)): the scan keeps the
\* element seen first among those with the smallest key
RECURSIVE PyMinKeyFrom(_, _, _, _)
PyMinKeyFrom(arr, target, best, i) ==
    IF i > Len(arr) THEN best
    ELSE IF Abs(FSub(arr[i], target)) < Abs(FSub(best, target))
         THEN PyMinKeyFrom(arr, target, arr[i], i + 1)
         ELSE PyMinKeyFrom(arr, target, best, i + 1)

\* variant: a later element with an equal key replaces the earlier one
RECURSIVE PyMinKeyLastFrom(_, _, _, _)
PyMinKeyLastFrom(arr, target, best, i) ==
    IF i > Len(arr) THEN best
    ELSE IF Abs(FSub(arr[i], target)) <= Abs(FSub(best, target))
         THEN PyMinKeyLastFrom(arr, target, arr[i], i + 1)
         ELSE PyMinKeyLastFrom(arr, target, best, i + 1)

PyMinKey_lastwins(arr, target) == PyMinKeyLastFrom(arr, target, arr[1], 2)

PyMinKey(arr, target) == PyMinKeyFrom(arr, target, arr[1], 2)

\* np.where(arr == value)[0][0]: the first index (from 0) holding value
NpWhereFirst(arr, value) ==
    (CHOOSE i \in 1..Len(arr) :
        /\ arr[i] = value
        /\ \A k \in 1..(i - 1) : arr[k] # value) - 1

\* find_nearest_lonlat(lon, lat, lon_arr, lat_arr) -> (lon_nearest, lat_nearest)
find_nearest_lonlat(lon, lat, lon_arr, lat_arr) ==
    [lon_nearest |-> NpWhereFirst(lon_arr, PyMinKey(lon_arr, lon)),
     lat_nearest |-> NpWhereFirst(lat_arr, PyMinKey(lat_arr, lat))]

\* ---- central_date ---------------------------------------------------------
\* datetime._divide_and_round: a / b to the nearest integer, ties to even
DivideAndRound(a, b) ==
    LET q == a \div b
        r == a % b
    IN  IF 2 * r > b \/ (2 * r = b /\ q % 2 = 1) THEN q + 1 ELSE q

\* variant: the quotient is floored
TimedeltaDiv_floor(td, n) == td \div n

\* timedelta / int, in microseconds
TimedeltaDiv(td, n) == DivideAndRound(td, n)

\* central_date(iniDate, finDate) -> centralDate
central_date(iniDate, finDate) ==
    LET halfPeriod == TimedeltaDiv(finDate - iniDate, 2)
    IN  iniDate + halfPeriod

\* ---- dirstats -------------------------------------------------------------
\* an entry of a series, or a result: a number, NaN or infinity
Num(x) == [k |-> "num", v |-> x]
NaN    == [k |-> "nan", v |-> 0]
Inf    == [k |-> "inf", v |-> 0]
IsNum(e) == e.k = "num"

\* Series.dropna()
DropNa(series) == SelectSeq(series, IsNum)

RECURSIVE SumCos(_, _)
SumCos(series, i) ==
    IF i > Len(series) THEN 0 ELSE FAdd(NpCos(series[i].v), SumCos(series, i + 1))

RECURSIVE SumSin(_, _)
SumSin(series, i) ==
    IF i > Len(series) THEN 0 ELSE FAdd(NpSin(series[i].v), SumSin(series, i + 1))

\* variant: a negative mean angle is returned as it is
CircMean_nowrap(series) ==
    IF Len(series) = 0 THEN NaN
    ELSE Num(Arctan2Deg(SumSin(series, 1), SumCos(series, 1)))

\* np.rad2deg(circmean(np.deg2rad(series))): the angle of the summed unit
\* vectors, a negative angle turned by a full circle
CircMean(series) ==
    IF Len(series) = 0 THEN NaN
    ELSE LET res == Arctan2Deg(SumSin(series, 1), SumCos(series, 1))
         IN  Num(IF res < 0 THEN FAdd(res, Deg(360)) ELSE res)

\* -log2 of y / 2^14 for 2^14 <= y < 2^15, bit by bit, in units
RECURSIVE Log2Frac(_, _, _)
Log2Frac(y, acc, w) ==
    IF w = 0 THEN acc
    ELSE LET y2 == (y * y) \div 2^14
         IN  IF y2 >= 2^15 THEN Log2Frac(y2 \div 2, acc + w, w \div 2)
             ELSE Log2Frac(y2, acc, w \div 2)

\* np.log(x) for 0 < x
NpLog(x) ==
    LET b  == BitLen(x)
        y  == (x * 2^14) \div 2^(b - 1)
        l2 == Deg(b - 1 - FracBits) + Log2Frac(y, 0, Unit \div 2)
    IN  Fl(RoundDiv(l2 * 11357, 2^14))

\* np.rad2deg(circstd(np.deg2rad(series))): sqrt(-2 log R), R the length of
\* the mean unit vector
CircStd(series) ==
    IF Len(series) = 0 THEN NaN
    ELSE LET n  == Len(series)
             sm == Fl(RoundDiv(SumSin(series, 1), n))
             cm == Fl(RoundDiv(SumCos(series, 1), n))
             R  == NpSqrt(FAdd(FMul(sm, sm), FMul(cm, cm)))
         IN  IF R = 0 THEN Inf
             ELSE LET t == FMul(Deg(-2), NpLog(R))
                  IN  IF t < 0 THEN NaN
                      ELSE Num(Fl(RoundDiv(NpSqrt(t) * 14668, 2^8)))

\* np.nanmin / np.nanmax: the extreme of the entries that are numbers
RECURSIVE NanMin(_, _, _)
NanMin(series, best, i) ==
    IF i > Len(series) THEN best
    ELSE IF ~IsNum(series[i]) THEN NanMin(series, best, i + 1)
         ELSE IF ~IsNum(best) \/ series[i].v < best.v
              THEN NanMin(series, series[i], i + 1)
              ELSE NanMin(series, best, i + 1)

RECURSIVE NanMax(_, _, _)
NanMax(series, best, i) ==
    IF i > Len(series) THEN best
    ELSE IF ~IsNum(series[i]) THEN NanMax(series, best, i + 1)
         ELSE IF ~IsNum(best) \/ series[i].v > best.v
              THEN NanMax(series, series[i], i + 1)
              ELSE NanMax(series, best, i + 1)

\* variant: np.min, which returns NaN as soon as one entry is missing
NpNanMin_propagate(series) ==
    IF \E i \in 1..Len(series) : ~IsNum(series[i]) THEN NaN ELSE NanMin(series, NaN, 1)

NpNanMin(series) == NanMin(series, NaN, 1)
NpNanMax(series) == NanMax(series, NaN, 1)

\* dirstats(direc) -> (mean, standard deviation, minimum, maximum)
dirstats(direc) ==
    [mean |-> CircMean(DropNa(direc)),
     std  |-> CircStd(DropNa(direc)),
     min  |-> NpNanMin(direc),
     max  |-> NpNanMax(direc)]

\* ---- state ----------------------------------------------------------------
VARIABLES
    calls,          \* names of the functions called so far, in order
    uvArgs,         \* arguments of the uv2intdir call
    polar,          \* what uv2intdir returned: (spd, direc)
    idArgs,         \* arguments of the intdir2uv call
    comp,           \* what intdir2uv returned: (u, v)
    nearArgs,       \* arguments of the find_nearest_lonlat call
    nearest,        \* what find_nearest_lonlat returned
    dateArgs,       \* arguments of the central_date call
    centralDate,    \* what central_date returned
    direc,          \* the caller's series, as dirstats leaves it
    statsArgs,      \* the series as passed to dirstats
    stats_metrics   \* what dirstats returned

uvVars   == <<uvArgs, polar, idArgs, comp>>
nearVars == <<nearArgs, nearest>>
dateVars == <<dateArgs, centralDate>>
statVars == <<direc, statsArgs, stats_metrics>>
vars     == <<calls, uvVars, nearVars, dateVars, statVars>>

\* ---- inputs ---------------------------------------------------------------
Velocities == {Deg(n) : n \in -MaxVel..MaxVel}

DataTypes ==
    { Current, Wind, Wave, << >>,
      << "C", "u", "r", "r", "e", "n", "t" >>,
      << "C", "U", "R", "R", "E", "N", "T" >>,
      << "c", "u", "r", "e", "n", "t" >>,
      << "W", "i", "n", "d" >> }

\* declinations: none, a grid step either way, whole degrees on both sides
\* of zero and beyond a full turn, and the float just past -90
MagDecls ==
    { 0, 1, -1, Deg(2), Deg(30), Deg(-45), Deg(90), Deg(360), Deg(-360), Deg(390),
      Deg(-405), Deg(720), -(Deg(90) + Ulp(Deg(90))) }

Speeds     == {0, Deg(1)}
Directions == {0, Deg(90), Deg(225), Deg(360)}

SeqsUpTo(S, n) == UNION {[1..m -> S] : m \in 1..n}

Coords      == {Deg(-1), 0, Deg(1)}
CoordArrays == SeqsUpTo(Coords, MaxLen)

Instants == 0..MaxTime

\* entries of a series: missing, negative, a thirty-second of a degree below
\* zero, in range, a full turn and beyond
Entries ==
    { NaN, Num(Deg(-10)), Num(-(Unit \div 32)), Num(0), Num(Deg(10)),
      Num(Deg(180)), Num(Deg(350)), Num(Deg(360)), Num(Deg(370)) }
SeriesInputs == SeqsUpTo(Entries, MaxLen)

Init ==
    /\ calls  = << >>
    /\ uvArgs = [u |-> 0, v |-> 0, data_type |-> << >>, mag_decl |-> 0]
    /\ polar  = [spd |-> 0, direc |-> 0]
    /\ idArgs = [spd |-> 0, direc |-> 0, data_type |-> << >>]
    /\ comp   = [u |-> 0, v |-> 0]
    /\ nearArgs = [lon |-> 0, lat |-> 0, lon_arr |-> << >>, lat_arr |-> << >>]
    /\ nearest  = [lon_nearest |-> 0, lat_nearest |-> 0]
    /\ dateArgs = [iniDate |-> 0, finDate |-> 0]
    /\ centralDate = 0
    /\ direc = << >>
    /\ statsArgs = << >>
    /\ stats_metrics = [mean |-> NaN, std |-> NaN, min |-> NaN, max |-> NaN]

\* ---- actions --------------------------------------------------------------
\* nothing has been called yet
Idle == calls = << >>

Call_uv2intdir(uu, vv, data_type, decl) ==
    /\ Idle
    /\ calls'  = Append(calls, "uv2intdir")
    /\ uvArgs' = [u |-> uu, v |-> vv, data_type |-> data_type, mag_decl |-> decl]
    /\ polar'  = uv2intdir(uu, vv, data_type, decl)
    /\ UNCHANGED <<idArgs, comp, nearVars, dateVars, statVars>>

\* intdir2uv has not been called yet
Unconverted == "intdir2uv" \notin {calls[i] : i \in 1..Len(calls)}

Call_intdir2uv(s, d, data_type) ==
    /\ Unconverted
    /\ calls'  = Append(calls, "intdir2uv")
    /\ idArgs' = [spd |-> s, direc |-> d, data_type |-> data_type]
    /\ comp'   = intdir2uv(s, d, data_type)
    /\ UNCHANGED <<uvArgs, polar, nearVars, dateVars, statVars>>

\* the caller converts fresh values, or converts back what uv2intdir returned
NextUV ==
    \/ /\ Idle
       /\ \E uu \in Velocities, vv \in Velocities, t \in DataTypes, d \in MagDecls :
             Call_uv2intdir(uu, vv, t, d)
    \/ /\ Unconverted
       /\ \E t \in DataTypes :
          \E s \in (IF Idle THEN Speeds ELSE {polar.spd}) :
          \E d \in (IF Idle THEN Directions ELSE {polar.direc}) :
             Call_intdir2uv(s, d, t)

SpecUV == Init /\ [][NextUV]_vars

Call_find_nearest_lonlat(lon, lat, lon_arr, lat_arr) ==
    /\ Idle
    /\ calls' = Append(calls, "find_nearest_lonlat")
    /\ nearArgs' = [lon |-> lon, lat |-> lat, lon_arr |-> lon_arr, lat_arr |-> lat_arr]
    /\ nearest'  = find_nearest_lonlat(lon, lat, lon_arr, lat_arr)
    /\ UNCHANGED <<uvVars, dateVars, statVars>>

NextNearest ==
    /\ Idle
    /\ \E lon \in Coords, lat \in Coords, lon_arr \in CoordArrays, lat_arr \in CoordArrays :
          Call_find_nearest_lonlat(lon, lat, lon_arr, lat_arr)

SpecNearest == Init /\ [][NextNearest]_vars

Call_central_date(iniDate, finDate) ==
    /\ Idle
    /\ calls' = Append(calls, "central_date")
    /\ dateArgs' = [iniDate |-> iniDate, finDate |-> finDate]
    /\ centralDate' = central_date(iniDate, finDate)
    /\ UNCHANGED <<uvVars, nearVars, statVars>>

NextDate ==
    /\ Idle
    /\ \E iniDate \in Instants, finDate \in Instants : Call_central_date(iniDate, finDate)

SpecDate == Init /\ [][NextDate]_vars

\* the caller builds a series
Load_series(series) ==
    /\ Idle
    /\ calls' = Append(calls, "Series")
    /\ direc' = series
    /\ UNCHANGED <<uvVars, nearVars, dateVars, statsArgs, stats_metrics>>

\* dirstats reads the series through dropna(), nanmin and nanmax, which
\* build new arrays: the caller's series stays as it was
Call_dirstats ==
    /\ calls = << "Series" >>
    /\ calls' = Append(calls, "dirstats")
    /\ statsArgs' = direc
    /\ stats_metrics' = dirstats(direc)
    /\ direc' = direc
    /\ UNCHANGED <<uvVars, nearVars, dateVars>>

NextStats ==
    \/ /\ Idle
       /\ \E series \in SeriesInputs : Load_series(series)
    \/ Call_dirstats

SpecStats == Init /\ [][NextStats]_vars

\* ---- properties -----------------------------------------------------------
\* tolerance on a velocity component, on an angle
Tol    == Unit \div 64
DirTol == 2 * Ulp(Deg(360))

\* tolerance on an angle computed with a declination of size decl: the
\* rounding grows with the intermediate values of the computation
DirTolAt(decl) == 2 * Ulp(Abs(decl) + Deg(720))

\* distance of two angles around the circle
CircDist(a, b) ==
    LET m == (a - b) % Deg(360) IN IF m > Deg(180) THEN Deg(360) - m ELSE m

Polarised == calls # << >> /\ calls[1] = "uv2intdir"
RoundTripped ==
    /\ calls = << "uv2intdir", "intdir2uv" >>
    /\ idArgs.data_type = uvArgs.data_type

UpperCurrent == << "C", "U", "R", "R", "E", "N", "T" >>
Misspelled   == << "c", "u", "r", "e", "n", "t" >>

\* the spellings that are "current" when case is ignored
CurrentSpellings == { Current, << "C", "u", "r", "r", "e", "n", "t" >>, UpperCurrent }

\* the direction of (uu, vv) measured from the given offset
DirFrom(offset, uu, vv, decl) ==
    NpMod(FSub(Deg(offset), FSub(Arctan2Deg(vv, uu), decl)), Deg(360))

Near(a, b) == Abs(a - b) <= Tol

\* C2: with the same data_type and mag_decl = 0, intdir2uv applied to what
\* uv2intdir returned gives back (u, v) up to the numeric tolerance, in
\* every quadrant, on the axes and at rest; u = 1, v = 0, "current" gives
\* speed 1 and direction 90.
C2_RoundTrip ==
    /\ (RoundTripped /\ uvArgs.mag_decl = 0)
          => /\ Near(comp.u, uvArgs.u)
             /\ Near(comp.v, uvArgs.v)
    /\ (Polarised /\ uvArgs.mag_decl = 0 /\ uvArgs.data_type = Current
           /\ uvArgs.u = Deg(1) /\ uvArgs.v = 0)
          => polar = [spd |-> Deg(1), direc |-> Deg(90)]

C2_Witness ==
    /\ RoundTripped
    /\ uvArgs.mag_decl = 0
    /\ uvArgs.u = Deg(-1)
    /\ uvArgs.v = Deg(2)
    /\ uvArgs.data_type = Wave
    /\ polar.spd > 0

\* C3: the direction uv2intdir returns satisfies 0 <= direction < 360 for
\* every (u, v), data_type and mag_decl.
C3_DirectionInRange ==
    Polarised => (polar.direc >= 0 /\ polar.direc < Deg(360))

\* C4: data_type is compared with "current" ignoring case; every other
\* string takes the wind/wave branch: offset 270 in uv2intdir, negated
\* components in intdir2uv.
C4_CaseInsensitive ==
    /\ Polarised =>
          polar.direc = DirFrom(IF uvArgs.data_type \in CurrentSpellings THEN 90 ELSE 270,
                                uvArgs.u, uvArgs.v, uvArgs.mag_decl)
    /\ (calls # << >> /\ calls[Len(calls)] = "intdir2uv") =>
          LET sgn == IF idArgs.data_type \in CurrentSpellings THEN 1 ELSE -1
          IN  /\ comp.u = sgn * FMul(idArgs.spd, NpSin(idArgs.direc))
              /\ comp.v = sgn * FMul(idArgs.spd, NpCos(idArgs.direc))

C4_Witness ==
    /\ calls = << "uv2intdir", "intdir2uv" >>
    /\ uvArgs.data_type = UpperCurrent
    /\ idArgs.data_type = Misspelled
    /\ uvArgs.u = Deg(1)
    /\ uvArgs.v = Deg(1)
    /\ comp.u < 0

\* C6 as stated: with mag_decl = 0 the direction for "current" and the
\* direction for any other data_type differ by exactly 180 modulo 360, and
\* the speed is the same.
C6_Exactly180 ==
    (Polarised /\ uvArgs.mag_decl = 0 /\ uvArgs.data_type \notin CurrentSpellings)
        => LET cur == uv2intdir(uvArgs.u, uvArgs.v, Current, 0)
           IN  /\ (polar.direc - cur.direc) % Deg(360) = Deg(180)
               /\ polar.spd = cur.spd

\* C6 amended: the two directions differ by 180 modulo 360 up to the
\* rounding of the two subtractions, and the speed is the same.
C6_Near180 ==
    (Polarised /\ uvArgs.mag_decl = 0 /\ uvArgs.data_type \notin CurrentSpellings)
        => LET cur == uv2intdir(uvArgs.u, uvArgs.v, Current, 0)
           IN  /\ CircDist(polar.direc, cur.direc + Deg(180)) <= DirTol
               /\ polar.spd = cur.spd

C6_Witness ==
    /\ Polarised
    /\ uvArgs.mag_decl = 0
    /\ uvArgs.data_type = Wind
    /\ uvArgs.u = Deg(1)
    /\ uvArgs.v = Deg(2)
    /\ (polar.direc - uv2intdir(uvArgs.u, uvArgs.v, Current, 0).direc) % Deg(360) # Deg(180)

\* C7 as stated: for u = 0, v = 1, mag_decl = 0 the direction is 90 for
\* "current" and 270 for "wind".
C7_NorthIs90 ==
    (Polarised /\ uvArgs.u = 0 /\ uvArgs.v = Deg(1) /\ uvArgs.mag_decl = 0)
        => /\ uvArgs.data_type = Current => polar.direc = Deg(90)
           /\ uvArgs.data_type = Wind => polar.direc = Deg(270)

\* C7 amended: for u = 0, v = 1, mag_decl = 0 the direction is 0 for
\* "current" and 180 for "wind" (90 and 270 are the directions of u = 1, v = 0).
C7_NorthIs0 ==
    /\ (Polarised /\ uvArgs.u = 0 /\ uvArgs.v = Deg(1) /\ uvArgs.mag_decl = 0)
          => /\ uvArgs.data_type = Current => polar.direc = 0
             /\ uvArgs.data_type = Wind => polar.direc = Deg(180)
    /\ (Polarised /\ uvArgs.u = Deg(1) /\ uvArgs.v = 0 /\ uvArgs.mag_decl = 0)
          => /\ uvArgs.data_type = Current => polar.direc = Deg(90)
             /\ uvArgs.data_type = Wind => polar.direc = Deg(270)

C7_Witness ==
    /\ Polarised
    /\ uvArgs.u = 0
    /\ uvArgs.v = Deg(1)
    /\ uvArgs.mag_decl = 0
    /\ uvArgs.data_type = Wind
    /\ polar.direc = Deg(180)

\* the direction and speed uv2intdir gives the same call without declination
NoDecl == uv2intdir(uvArgs.u, uvArgs.v, uvArgs.data_type, 0)

\* a declination that turns the vector visibly
Turning(decl) == CircDist(decl, 0) >= Deg(2)

Nearested == calls = << "find_nearest_lonlat" >>

\* the smallest index (from 0) whose entry is as close to target as any
FirstNearest(arr, target) ==
    (CHOOSE i \in 1..Len(arr) :
        /\ \A k \in 1..Len(arr) : Abs(arr[i] - target) <= Abs(arr[k] - target)
        /\ \A k \in 1..(i - 1) : Abs(arr[k] - target) > Abs(arr[i] - target)) - 1

\* C1: find_nearest_lonlat returns (i, j), i the smallest index at which
\* |lon_arr[i] - lon| is minimal and j the smallest index at which
\* |lat_arr[j] - lat| is minimal, whether the tied entries are equal or not;
\* i does not depend on lat and lat_arr, nor j on lon and lon_arr.
C1_FirstNearest ==
    Nearested =>
        /\ nearest.lon_nearest = FirstNearest(nearArgs.lon_arr, nearArgs.lon)
        /\ nearest.lat_nearest = FirstNearest(nearArgs.lat_arr, nearArgs.lat)
        /\ \A c \in Coords :
              /\ find_nearest_lonlat(nearArgs.lon, c, nearArgs.lon_arr, << c >>).lon_nearest
                    = nearest.lon_nearest
              /\ find_nearest_lonlat(c, nearArgs.lat, << c >>, nearArgs.lat_arr).lat_nearest
                    = nearest.lat_nearest

C1_Witness ==
    /\ Nearested
    /\ nearArgs.lon = 0
    /\ nearArgs.lon_arr = << Deg(1), Deg(-1) >>
    /\ nearArgs.lat = Deg(1)
    /\ nearArgs.lat_arr = << Deg(1), Deg(1), Deg(-1) >>
    /\ nearest = [lon_nearest |-> 0, lat_nearest |-> 0]

\* ---- central_date ---------------------------------------------------------
Centred == calls = << "central_date" >>

\* C5 as stated: central_date(t0, t1) = central_date(t1, t0) for every pair
\* of instants, odd differences included.
C5_OrderIndependent ==
    Centred => centralDate = central_date(dateArgs.finDate, dateArgs.iniDate)

\* C5 amended: central_date(t0, t1) = central_date(t1, t0) when t1 - t0 is
\* an even number of microseconds; when it is odd the two results differ by
\* exactly one microsecond.
C5_EvenOrderIndependent ==
    Centred =>
        LET back == central_date(dateArgs.finDate, dateArgs.iniDate)
        IN  IF (dateArgs.finDate - dateArgs.iniDate) % 2 = 0
            THEN centralDate = back
            ELSE Abs(centralDate - back) = 1

C5_Witness ==
    /\ Centred
    /\ dateArgs.finDate - dateArgs.iniDate = 3
    /\ centralDate = dateArgs.iniDate + 2
    /\ central_date(dateArgs.finDate, dateArgs.iniDate) = dateArgs.iniDate + 1

\* ---- dirstats -------------------------------------------------------------
Measured == calls = << "Series", "dirstats" >> /\ DropNa(statsArgs) # << >>

\* C8: with at least one entry present, all four results of dirstats equal
\* those of dirstats on the series without its missing entries, wherever the
\* missing entries stand, and the series itself is left as it was.
C8_IgnoresMissing ==
    Measured =>
        /\ stats_metrics = dirstats(DropNa(statsArgs))
        /\ direc = statsArgs

C8_Witness ==
    /\ Measured
    /\ statsArgs = << NaN, Num(Deg(10)), Num(Deg(350)) >>
    /\ stats_metrics.min = Num(Deg(10))
    /\ stats_metrics.max = Num(Deg(350))
    /\ IsNum(stats_metrics.std)

Normalised(e) == IsNum(e) /\ 0 <= e.v /\ e.v < Deg(360)

\* C9 as stated: the mean, the minimum and the maximum dirstats returns
\* each satisfy 0 <= value < 360, for series with negative entries or
\* entries of 360 and above too.
C9_AllNormalised ==
    Measured =>
        /\ Normalised(stats_metrics.mean)
        /\ Normalised(stats_metrics.min)
        /\ Normalised(stats_metrics.max)

\* C9 amended: the mean satisfies 0 <= mean <= 360; the minimum and the
\* maximum are the smallest and the largest entry present, as they are:
\* they lie in [0, 360) exactly when those entries do.
C9_MeanOnlyNormalised ==
    Measured =>
        LET present == {statsArgs[i].v : i \in {k \in 1..Len(statsArgs) : IsNum(statsArgs[k])}}
        IN  /\ IsNum(stats_metrics.mean)
            /\ 0 <= stats_metrics.mean.v
            /\ stats_metrics.mean.v <= Deg(360)
            /\ IsNum(stats_metrics.min)
            /\ stats_metrics.min.v \in present
            /\ \A x \in present : stats_metrics.min.v <= x
            /\ IsNum(stats_metrics.max)
            /\ stats_metrics.max.v \in present
            /\ \A x \in present : x <= stats_metrics.max.v

C9_Witness ==
    /\ Measured
    /\ statsArgs = << Num(Deg(370)), NaN, Num(Deg(-10)) >>
    /\ stats_metrics.min = Num(Deg(-10))
    /\ stats_metrics.max = Num(Deg(370))
    /\ Normalised(stats_metrics.mean)

====
